---- MODULE Spec2Model ----
(***************************************************************************)
(* Model of the MCP image-generation server (src/unnamed/part_001): the    *)
(* job registry activeJobs, the detached batch runner                      *)
(* generateImagesInBackground, the blocking path generateImagesSync, the   *)
(* checkStatus, listImages and deleteImage tools and the tool handler.     *)
(* One action is one uninterrupted run of the JavaScript event loop: a     *)
(* handler or a continuation runs from one await to the next.  Strings are *)
(* sequences of one-character strings.  Spec is the generation and status  *)
(* tools; ToolsSpec adds the file tools around one generate call;          *)
(* CrossJobSpec runs jobs side by side with the status and file tools.     *)
(***************************************************************************)
EXTENDS Naturals, Sequences, FiniteSets, TLC

\* ------------------------------------------------------------------ bounds
\* generate calls that pass validation (each one is a run: a job or a sync call)
MaxRuns == 2
\* values Date.now() and new Date() can return: 0..MaxTime
MaxTime == 1
\* values of Math.random(): 0..MaxRand
MaxRand == 0
\* generate calls that pass validation in the runs with the file tools
MaxToolRuns == 1

\* ------------------------------------------------------------------ inputs
\* the words argument of generateImages
WordsInputs ==
  { <<>>,
    <<" ", ",", " ">>,
    <<"a", ",", ",", " ", "A">> }

\* the provider argument of generateImages
ProviderInputs == {"dalle3", "Stability", "midjourney"}

\* the async argument of generateImages
AsyncInputs == BOOLEAN

GenerateInputs ==
  { [words |-> w, provider |-> p, async |-> a] :
      w \in WordsInputs, p \in ProviderInputs, a \in AsyncInputs }

\* a job id is `job_${Date.now()}_${Math.random()...}`
JobIds == [t : 0..MaxTime, r : 0..MaxRand]

\* the jobId argument of checkStatus
CheckStatusInputs == JobIds

\* ------------------------------------------------------------------ strings
\* String.prototype.toLowerCase on the characters and provider names in use
LowerChar(c) == IF c = "A" THEN "a" ELSE IF c = "B" THEN "b" ELSE c

toLowerCase(p) ==
  CASE p = "Stability" -> "stability"
    [] p = "JPG" -> "jpg"
    [] OTHER -> p

IsSpace(c) == c = " "

RECURSIVE TrimLeft(_)
TrimLeft(s) == IF s # <<>> /\ IsSpace(Head(s)) THEN TrimLeft(Tail(s)) ELSE s

RECURSIVE TrimRight(_)
TrimRight(s) ==
  IF s # <<>> /\ IsSpace(s[Len(s)]) THEN TrimRight(SubSeq(s, 1, Len(s) - 1)) ELSE s

\* String.prototype.trim
trim(s) == TrimRight(TrimLeft(s))

\* words.split(","): "" gives [""], "a,,b" gives ["a", "", "b"]
RECURSIVE SplitFrom(_, _)
SplitFrom(s, cur) ==
  IF s = <<>> THEN <<cur>>
  ELSE IF Head(s) = "," THEN <<cur>> \o SplitFrom(Tail(s), <<>>)
  ELSE SplitFrom(Tail(s), Append(cur, Head(s)))

split(s) == SplitFrom(s, <<>>)

RECURSIVE FilterNonEmpty(_)
FilterNonEmpty(ws) ==
  IF ws = <<>> THEN <<>>
  ELSE IF Len(Head(ws)) > 0 THEN <<Head(ws)>> \o FilterNonEmpty(Tail(ws))
  ELSE FilterNonEmpty(Tail(ws))

\* words.split(",").map(w => w.trim()).filter(w => w.length > 0)
ParseWordList(words) ==
  FilterNonEmpty([k \in 1..Len(split(words)) |-> trim(split(words)[k])])

\* the word list of every words argument in use, computed once
WordListOf == [words \in WordsInputs |-> ParseWordList(words)]

IsAlnum(c) == c \in {"a", "b", "A", "B"}

\* word.trim().replace(/[^a-zA-Z0-9]/g, '_').toLowerCase()
sanitizeFilename(word) ==
  [k \in 1..Len(trim(word)) |->
     LowerChar(IF IsAlnum(trim(word)[k]) THEN trim(word)[k] ELSE "_")]

\* `${sanitizedWord}_${timestamp}.png`; a file name is `${base}_${ts}.${ext}`
FileName(word, timestamp) ==
  [base |-> sanitizeFilename(word), ts |-> timestamp, ext |-> "png"]

\* what config.imageDir holds when the server starts: files the server did not
\* write, one that is no image and one image with an upper-case extension
InitialFiles ==
  << [base |-> <<"a">>, ts |-> 0, ext |-> "txt"],
     [base |-> <<"b">>, ts |-> 1, ext |-> "JPG"] >>


\* ------------------------------------------------------------------ state
VARIABLES
  config,      \* config.providers: is each provider's apiKey set
  activeJobs,  \* the Map activeJobs: job id -> jobInfo object (index into heap)
  heap,        \* the jobInfo objects ever created, in creation order
  runs,        \* the generate calls past validation: runner or sync call state
  files,       \* the files of config.imageDir, oldest first (by birthtime)
  outside,     \* the files of __dirname, the parent of config.imageDir
  listing,     \* the listImages call in flight, between readdir and stat (or none)
  seen,        \* per jobInfo object: the last StatusView checkStatus reported
  lastError,   \* the message of the last Error a tool call threw to its caller
  answers      \* the provider side laid down in advance: the answers the requests
               \* for the k-th word of a batch get (empty: nothing is laid down)

vars ==
  <<config, activeJobs, heap, runs, files, outside, listing, seen, lastError, answers>>

\* ------------------------------------------------------------------ records
\* the success object pushed at lines 223 and 266-273 (388, 460 in the sync path)
SuccessResult(word, filename) ==
  [url |-> {filename}, alt |-> "image", filename |-> {filename}, word |-> word]

\* the failure object pushed by the catch block, lines 297-304 (481-488)
FailureResult(word, message) ==
  [url |-> {}, alt |-> message, filename |-> {}, word |-> word]

\* the jobInfo literal of generateImagesAsync
NewJobInfo(jobId, wordList, provider, t) ==
  [id |-> jobId,
   status |-> "started",
   totalWords |-> Len(wordList),
   completedWords |-> 0,
   results |-> <<>>,
   startTime |-> t,
   endTime |-> {},
   currentWord |-> {},
   provider |-> provider,
   statuses |-> <<"started">>]

\* jobInfo.status = s; statuses logs the values the field has taken, in order
SetStatus(rec, s) ==
  [rec EXCEPT !.status = s,
              !.statuses = IF @[Len(@)] = s THEN @ ELSE Append(@, s)]

\* a generate call that passed validation and awaits ensureImageDirectory()
NewRun(input) ==
  [async |-> input.async,
   wordList |-> WordListOf[input.words],
   provider |-> input.provider,
   pc |-> "ensureDirs",
   i |-> 0,
   job |-> 0,
   timestamp |-> 0,
   timer |-> FALSE,
   results |-> <<>>,
   attempted |-> {},
   failedAt |-> {},
   sent |-> [k \in 1..Len(WordListOf[input.words]) |-> 0]]

\* the word of the iteration in progress: wordList[i]
CurrentWord(run) == run.wordList[run.i + 1]

\* failedAt logs the iterations whose try block threw
Thrown(run) == [run EXCEPT !.failedAt = @ \cup {run.i + 1}]

\* activeJobs.set(key, value)
MapSet(map, key, value) ==
  [k \in DOMAIN map \cup {key} |-> IF k = key THEN value ELSE map[k]]

\* does the switch on provider.toLowerCase() reach a provider with its key set
IsDalle(provider) == toLowerCase(provider) \in {"dalle3", "dall-e-3"}

IsStability(provider) == toLowerCase(provider) = "stability"

\* UnusableReason without the checks of the api keys
UnusableReason_KeyUnchecked(provider) ==
  IF IsDalle(provider) \/ IsStability(provider) THEN {} ELSE {"Unsupported provider"}

\* the message of the Error thrown before any request is sent, or {} if none
UnusableReason(provider) ==
  IF IsDalle(provider) THEN (IF config.dalle3 THEN {} ELSE {"Missing OPENAI_API_KEY"})
  ELSE IF IsStability(provider)
       THEN (IF config.stability THEN {} ELSE {"Missing STABILITY_API_KEY"})
  ELSE {"Unsupported provider"}

\* ------------------------------------------------------------------ background runner
\* BeginItem that names the word only when the record names none yet
BeginItem_StaleWord(rec, word) ==
  [SetStatus(rec, "generating") EXCEPT
     !.currentWord = IF @ = {} THEN {word} ELSE @]

\* lines 182-183: the first statements of an iteration
BeginItem(rec, word) == [SetStatus(rec, "generating") EXCEPT !.currentWord = {word}]

\* FinishJob that also resets the progress counter
FinishJob_Reset(rec) ==
  [SetStatus(rec, "completed") EXCEPT !.endTime = {"set"}, !.currentWord = {},
                                      !.completedWords = 0]

\* FinishJob that leaves the status as it is
FinishJob_NoStatus(rec) == [rec EXCEPT !.endTime = {"set"}, !.currentWord = {}]

\* lines 310-312: after the loop
FinishJob(rec) ==
  [SetStatus(rec, "completed") EXCEPT !.endTime = {"set"}, !.currentWord = {}]

\* BgCatch with the error leaving the loop: the remaining words are skipped
BgCatch_Break(run, rec, message) ==
  [run |-> [run EXCEPT !.i = Len(run.wordList), !.pc = "loop", !.timer = FALSE],
   rec |-> [rec EXCEPT !.results = Append(@, FailureResult(CurrentWord(run), message)),
                       !.completedWords = run.i + 1]]

\* BgCatch that only logs the error and pushes no result
BgCatch_NoPush(run, rec, message) ==
  [run |-> [run EXCEPT !.i = @ + 1, !.pc = "loop", !.timer = FALSE],
   rec |-> [rec EXCEPT !.completedWords = run.i + 1]]

\* lines 295-307: the catch block, then completedWords = i + 1 and i++
BgCatch(run, rec, message) ==
  [run |-> [run EXCEPT !.i = @ + 1, !.pc = "loop", !.timer = FALSE],
   rec |-> [rec EXCEPT !.results = Append(@, FailureResult(CurrentWord(run), message)),
                       !.completedWords = run.i + 1]]

\* BgPush that leaves the counter to the catch block
BgPush_NoCount(run, rec) ==
  [run |-> [run EXCEPT !.i = @ + 1, !.pc = "loop"],
   rec |-> [rec EXCEPT
              !.results = Append(@, SuccessResult(CurrentWord(run),
                                      FileName(CurrentWord(run), run.timestamp)))]]

\* lines 223 / 266-273 after a successful write, then completedWords = i + 1 and i++
BgPush(run, rec) ==
  [run |-> [run EXCEPT !.i = @ + 1, !.pc = "loop"],
   rec |-> [rec EXCEPT
              !.results = Append(@, SuccessResult(CurrentWord(run),
                                      FileName(CurrentWord(run), run.timestamp))),
              !.completedWords = run.i + 1]]

\* lines 195 / 241-246: the request is sent; stability arms a 90 s abort timer,
\* the dalle3 case arms none
BgSend(run, rec) ==
  [run |-> [run EXCEPT !.pc = IF IsDalle(run.provider) THEN "fetch" ELSE "post",
                       !.timer = IsStability(run.provider),
                       !.sent[run.i + 1] = @ + 1],
   rec |-> rec]

RECURSIVE BgLoop(_, _)

\* BgLoop whose loop test is i < wordList.length - 1
BgLoop_OffByOne(run, rec) ==
  IF run.i + 1 >= Len(run.wordList)
  THEN [run |-> [run EXCEPT !.pc = "done"], rec |-> FinishJob(rec)]
  ELSE LET run1 == [run EXCEPT !.attempted = @ \cup {run.i + 1}]
           rec1 == BeginItem(rec, CurrentWord(run))
       IN  IF UnusableReason(run.provider) # {}
           THEN LET c == BgCatch(Thrown(run1), rec1,
                                 CHOOSE m \in UnusableReason(run.provider) : TRUE)
                IN  BgLoop(c.run, c.rec)
           ELSE BgSend(run1, rec1)

\* lines 173-312 from the loop test up to the next await (or the end of the function)
BgLoop(run, rec) ==
  IF run.i >= Len(run.wordList)
  THEN [run |-> [run EXCEPT !.pc = "done"], rec |-> FinishJob(rec)]
  ELSE LET run1 == [run EXCEPT !.attempted = @ \cup {run.i + 1}]
           rec1 == BeginItem(rec, CurrentWord(run))
       IN  IF UnusableReason(run.provider) # {}
           THEN LET c == BgCatch(Thrown(run1), rec1,
                                 CHOOSE m \in UnusableReason(run.provider) : TRUE)
                IN  BgLoop(c.run, c.rec)
           ELSE BgSend(run1, rec1)

\* BgFail that sends the request for the same word again
BgFail_Retry(run, rec, message) == BgSend(Thrown(run), rec)

\* BgFail with the error escaping the runner: its promise, which nobody awaits, rejects
BgFail_Rethrow(run, rec, message) ==
  [run |-> [Thrown(run) EXCEPT !.pc = "rejected", !.timer = FALSE], rec |-> rec]

\* a rejected await inside the try block: the catch block, then the loop goes on
BgFail(run, rec, message) ==
  LET c == BgCatch(Thrown(run), rec, message) IN BgLoop(c.run, c.rec)

\* the write succeeded: push, then the loop goes on
BgSucceed(run, rec) ==
  LET c == BgPush(run, rec) IN BgLoop(c.run, c.rec)

\* ------------------------------------------------------------------ synchronous path
\* SyncCatch with the error leaving the loop: the remaining words are skipped
SyncCatch_Break(run, message) ==
  [run EXCEPT !.i = Len(run.wordList), !.pc = "loop", !.timer = FALSE,
              !.results = Append(@, FailureResult(CurrentWord(run), message))]

\* lines 479-489: the catch block of generateImagesSync
SyncCatch(run, message) ==
  [run EXCEPT !.i = @ + 1, !.pc = "loop", !.timer = FALSE,
              !.results = Append(@, FailureResult(CurrentWord(run), message))]

\* lines 388 / 460: the push after a successful write
SyncPush(run) ==
  [run EXCEPT !.i = @ + 1, !.pc = "loop",
              !.results = Append(@, SuccessResult(CurrentWord(run),
                                      FileName(CurrentWord(run), run.timestamp)))]

\* lines 353-357 / 424-428: both providers arm an abort timer, then send the request
SyncSend(run) ==
  [run EXCEPT !.pc = IF IsDalle(run.provider) THEN "fetch" ELSE "post",
              !.timer = TRUE,
              !.sent[run.i + 1] = @ + 1]

\* lines 335-492 from the loop test up to the next await (or the return)
RECURSIVE SyncLoop(_)
SyncLoop(run) ==
  IF run.i >= Len(run.wordList)
  THEN [run EXCEPT !.pc = "returned"]
  ELSE LET run1 == [run EXCEPT !.attempted = @ \cup {run.i + 1}]
       IN  IF UnusableReason(run.provider) # {}
           THEN SyncLoop(SyncCatch(Thrown(run1),
                                   CHOOSE m \in UnusableReason(run.provider) : TRUE))
           ELSE SyncSend(run1)

SyncFail(run, message) == SyncLoop(SyncCatch(Thrown(run), message))

SyncSucceed(run) == SyncLoop(SyncPush(run))

\* is there a file of this name in the directory
Exists(fs, name) == \E k \in 1..Len(fs) : fs[k] = name

\* fs.writeFile(filepath, buffer): creates the file, or replaces the content of the
\* existing one (which keeps its birthtime)
WriteFile(fs, name) == IF Exists(fs, name) THEN fs ELSE Append(fs, name)

\* ------------------------------------------------------------------ checkStatus
\* StatusView that attaches the results as soon as there are any
StatusView_EarlyResults(rec) ==
  [jobId |-> rec.id,
   status |-> rec.status,
   totalWords |-> rec.totalWords,
   completedWords |-> rec.completedWords,
   startTime |-> rec.startTime,
   currentWord |-> rec.currentWord,
   endTime |-> IF rec.status = "completed" THEN rec.endTime ELSE {},
   results |-> IF Len(rec.results) > 0 THEN {rec.results} ELSE {},
   successCount |-> IF Len(rec.results) > 0
                    THEN {Cardinality({k \in 1..Len(rec.results) : rec.results[k].url # {}})}
                    ELSE {},
   failureCount |-> IF Len(rec.results) > 0
                    THEN {Cardinality({k \in 1..Len(rec.results) : rec.results[k].url = {}})}
                    ELSE {}]

\* lines 504-524: the response object
StatusView(rec) ==
  [jobId |-> rec.id,
   status |-> rec.status,
   totalWords |-> rec.totalWords,
   completedWords |-> rec.completedWords,
   startTime |-> rec.startTime,
   currentWord |-> rec.currentWord,
   endTime |-> IF rec.status = "completed" THEN rec.endTime ELSE {},
   results |-> IF rec.status = "completed" THEN {rec.results} ELSE {},
   successCount |-> IF rec.status = "completed"
                    THEN {Cardinality({k \in 1..Len(rec.results) : rec.results[k].url # {}})}
                    ELSE {},
   failureCount |-> IF rec.status = "completed"
                    THEN {Cardinality({k \in 1..Len(rec.results) : rec.results[k].url = {}})}
                    ELSE {}]

\* ------------------------------------------------------------------ initial state
\* the server as it starts: the environment decides which api keys are set
Boot ==
  /\ config \in [dalle3 : BOOLEAN, stability : BOOLEAN]
  /\ activeJobs = << >>
  /\ heap = << >>
  /\ runs = << >>
  /\ files = InitialFiles
  /\ outside = {[base |-> <<"s">>, ts |-> 0, ext |-> "js"]}
  /\ listing = {}
  /\ seen = << >>
  /\ lastError = "none"

Init == Boot /\ answers = << >>

\* ------------------------------------------------------------------ actions
\* generateImages up to its first await: schema parse, word list, validation.
\* The thrown Error leaves the state as it is; otherwise the call awaits
\* ensureImageDirectory()
GenerateError_NoTrim(input) ==
  IF Len(input.words) = 0 THEN {"No valid words provided."} ELSE {}

GenerateError(input) ==
  IF Len(WordListOf[input.words]) = 0 THEN {"No valid words provided."} ELSE {}

Generate(input) ==
  /\ IF GenerateError(input) # {}
     THEN /\ runs' = runs
          /\ lastError' = CHOOSE m \in GenerateError(input) : TRUE
     ELSE /\ Len(runs) < MaxRuns
          /\ runs' = Append(runs, NewRun(input))
          /\ lastError' = lastError
  /\ UNCHANGED <<answers, config, activeJobs, heap, files, outside, listing, seen>>

\* StartJob whose runner yields before its loop: the record is stored as created and
\* the handle is returned first
StartJob_Deferred(r, now, rnd) ==
  /\ runs[r].pc = "ensureDirs"
  /\ runs[r].async
  /\ LET jobId == [t |-> now, r |-> rnd]
         obj == Len(heap) + 1
         run0 == [runs[r] EXCEPT !.job = obj, !.timestamp = now, !.pc = "loop"]
     IN  /\ activeJobs' = MapSet(activeJobs, jobId, obj)
         /\ heap' = Append(heap, NewJobInfo(jobId, run0.wordList, run0.provider, now))
         /\ runs' = [runs EXCEPT ![r] = run0]
         /\ seen' = Append(seen, {})
  /\ UNCHANGED <<answers, config, files, outside, listing, lastError>>

\* StartJob whose runner works on the first record of the registry
StartJob_SharedRecord(r, now, rnd) ==
  /\ runs[r].pc = "ensureDirs"
  /\ runs[r].async
  /\ LET jobId == [t |-> now, r |-> rnd]
         run0 == [runs[r] EXCEPT !.job = 1, !.timestamp = now]
         out == BgLoop(run0, NewJobInfo(jobId, run0.wordList, run0.provider, now))
     IN  /\ activeJobs' = MapSet(activeJobs, jobId, Len(heap) + 1)
         /\ heap' = Append(heap, out.rec)
         /\ runs' = [runs EXCEPT ![r] = out.run]
         /\ seen' = Append(seen, {})
  /\ UNCHANGED <<answers, config, files, outside, listing, lastError>>

\* generateImagesAsync from line 138: the record is created and stored, the runner is
\* called and runs to its first await, the handle is returned
StartJob(r, now, rnd) ==
  /\ runs[r].pc = "ensureDirs"
  /\ runs[r].async
  /\ LET jobId == [t |-> now, r |-> rnd]
         obj == Len(heap) + 1
         run0 == [runs[r] EXCEPT !.job = obj, !.timestamp = now]
         out == BgLoop(run0, NewJobInfo(jobId, run0.wordList, run0.provider, now))
     IN  /\ activeJobs' = MapSet(activeJobs, jobId, obj)
         /\ heap' = Append(heap, out.rec)
         /\ runs' = [runs EXCEPT ![r] = out.run]
         /\ seen' = Append(seen, {})
  /\ UNCHANGED <<answers, config, files, outside, listing, lastError>>

\* generateImagesSync from line 329 to its first await (or its return)
StartSync(r, now) ==
  /\ runs[r].pc = "ensureDirs"
  /\ ~runs[r].async
  /\ LET out == SyncLoop([runs[r] EXCEPT !.timestamp = now])
     IN  /\ runs' = [runs EXCEPT ![r] = out]
  /\ UNCHANGED <<answers, config, activeJobs, heap, files, outside, listing, seen, lastError>>

\* what a provider's answer to a request in flight can be: status 200 with the image
\* bytes as the body, status 200 with a JSON document that carries the image (data[0].url
\* from dalle3, artifacts[0].base64 from stability), another status, or a rejected
\* promise (network error)
ProviderOutcomes == {"image", "json", "status", "reject"}

\* the text of an Error the environment raised (an HTTP status, a network error, a
\* failed download, a file system error, an abort): one opaque value
EnvMessage == "request failed"

\* the await that follows a good response: the image download, then the file write
NextAwait(pc) == IF pc = "fetch" THEN "download" ELSE "write"

\* the message of the Error the failed await throws
ErrorMessage(pc, outcome) == EnvMessage

\* does the code that reads the answer get an image out of it.  dalle3, both paths
\* (lines 210-216, 375-381): response.ok, then response.json() and data.data[0].url;
\* the download (lines 219-220, 384-385): imgRes.ok, the body is taken as it comes.
\* stability in the runner (lines 262-263): response.status === 200, response.data is
\* written as it comes; stability in the sync path (lines 441-457): response.ok, then
\* response.json() and data.artifacts[0].base64 or data.content[0]
Accepts(run, outcome) ==
  CASE run.pc = "fetch" -> outcome = "json"
    [] run.pc = "download" -> outcome \in {"image", "json"}
    [] run.pc = "post" -> IF run.async THEN outcome \in {"image", "json"}
                          ELSE outcome = "json"

\* the continuation of the awaited request: lines 210-220 / 260-277 (375-385 /
\* 439-457); a good response clears the abort timer
Responds(r, outcome) ==
  /\ runs[r].pc \in {"fetch", "download", "post"}
  /\ IF Accepts(runs[r], outcome)
     THEN /\ runs' = [runs EXCEPT ![r].pc = NextAwait(@), ![r].timer = FALSE]
          /\ heap' = heap
     ELSE IF runs[r].async
     THEN LET out == BgFail(runs[r], heap[runs[r].job],
                            ErrorMessage(runs[r].pc, outcome))
          IN  /\ runs' = [runs EXCEPT ![r] = out.run]
              /\ heap' = [heap EXCEPT ![runs[r].job] = out.rec]
     ELSE LET out == SyncFail(runs[r], ErrorMessage(runs[r].pc, outcome))
          IN  /\ runs' = [runs EXCEPT ![r] = out]
              /\ heap' = heap
  /\ UNCHANGED <<answers, config, activeJobs, files, outside, listing, seen, lastError>>

\* the abort timer fires while the request is in flight: controller.abort() rejects
\* the awaited request (lines 242, 278-283; 354, 390-395, 425, 462-467)
Timeout(r) ==
  /\ runs[r].timer
  /\ runs[r].pc \in {"fetch", "post"}
  /\ IF runs[r].async
     THEN LET out == BgFail(runs[r], heap[runs[r].job], EnvMessage)
          IN  /\ runs' = [runs EXCEPT ![r] = out.run]
              /\ heap' = [heap EXCEPT ![runs[r].job] = out.rec]
     ELSE LET out == SyncFail(runs[r], EnvMessage)
          IN  /\ runs' = [runs EXCEPT ![r] = out]
              /\ heap' = heap
  /\ UNCHANGED <<answers, config, activeJobs, files, outside, listing, seen, lastError>>

\* the continuation of await fs.writeFile(filepath, buffer): lines 221-225 / 264-274
\* (386-389 / 458-461); a failed write throws into the catch block
WriteDone(r, ok) ==
  /\ runs[r].pc = "write"
  /\ files' = IF ok
              THEN WriteFile(files, FileName(CurrentWord(runs[r]), runs[r].timestamp))
              ELSE files
  /\ IF runs[r].async
     THEN LET out == IF ok THEN BgSucceed(runs[r], heap[runs[r].job])
                     ELSE BgFail(runs[r], heap[runs[r].job], EnvMessage)
          IN  /\ runs' = [runs EXCEPT ![r] = out.run]
              /\ heap' = [heap EXCEPT ![runs[r].job] = out.rec]
     ELSE LET out == IF ok THEN SyncSucceed(runs[r])
                     ELSE SyncFail(runs[r], EnvMessage)
          IN  /\ runs' = [runs EXCEPT ![r] = out]
              /\ heap' = heap
  /\ UNCHANGED <<answers, config, activeJobs, outside, listing, seen, lastError>>

\* CheckStatusResult that also rejects a job with no finished item
CheckStatusResult_NeedsProgress(jobId) ==
  IF jobId \notin DOMAIN activeJobs \/ heap[activeJobs[jobId]].completedWords = 0
  THEN [outcome |-> "Job not found", view |-> {}]
  ELSE [outcome |-> "StatusView", view |-> {StatusView(heap[activeJobs[jobId]])}]

\* checkStatus, lines 496-525: what the call answers in the current state
CheckStatusResult(jobId) ==
  IF jobId \notin DOMAIN activeJobs
  THEN [outcome |-> "Job not found", view |-> {}]
  ELSE [outcome |-> "StatusView", view |-> {StatusView(heap[activeJobs[jobId]])}]

\* CheckStatus that clears currentWord of the record it reports
CheckStatus_Touch(jobId) ==
  /\ IF CheckStatusResult(jobId).outcome = "StatusView"
     THEN /\ seen' = [seen EXCEPT ![activeJobs[jobId]] = CheckStatusResult(jobId).view]
          /\ heap' = [heap EXCEPT ![activeJobs[jobId]].currentWord = {}]
          /\ lastError' = lastError
     ELSE /\ seen' = seen
          /\ heap' = heap
          /\ lastError' = CheckStatusResult(jobId).outcome
  /\ UNCHANGED <<answers, config, activeJobs, runs, files, outside, listing>>

\* a checkStatus call; seen remembers the view it reported
CheckStatus(jobId) ==
  /\ IF CheckStatusResult(jobId).outcome = "StatusView"
     THEN /\ seen' = [seen EXCEPT ![activeJobs[jobId]] = CheckStatusResult(jobId).view]
          /\ lastError' = lastError
     ELSE /\ seen' = seen
          /\ lastError' = CheckStatusResult(jobId).outcome
  /\ UNCHANGED <<answers, config, activeJobs, heap, runs, files, outside, listing>>

\* ------------------------------------------------------------------ file tools
\* the filename argument of deleteImage: `up` leading "../" segments, then a name
DeleteInputs ==
  { [up |-> 0, name |-> FileName(<<"a">>, 0)],
    [up |-> 1, name |-> [base |-> <<"s">>, ts |-> 0, ext |-> "js"]] }

\* path.join(config.imageDir, filename): "../" leaves the image directory for
\* __dirname
ResolvePath(filename) ==
  [dir |-> IF filename.up = 0 THEN "imageDir" ELSE "__dirname", name |-> filename.name]

\* fs.unlink(filepath) on a directory listing
Unlink(fs, name) == SelectSeq(fs, LAMBDA f : f # name)

\* lines 562-571: fs.access and fs.unlink succeed if the path names a file, else
\* the ENOENT error is rethrown as "Image not found"
DeleteImageResult(filename) ==
  LET path == ResolvePath(filename)
  IN  IF \/ path.dir = "imageDir" /\ Exists(files, path.name)
         \/ path.dir = "__dirname" /\ path.name \in outside
      THEN "Deleted"
      ELSE "Image not found"

\* deleteImage, lines 558-572.  The access and the unlink are two awaits; whatever
\* runs between them, the call does what one step does at the instant of the unlink
\* (or of the access, if that one fails)
DeleteImage(filename) ==
  /\ IF DeleteImageResult(filename) = "Deleted"
     THEN /\ files' = IF ResolvePath(filename).dir = "imageDir"
                       THEN Unlink(files, filename.name) ELSE files
          /\ outside' = IF ResolvePath(filename).dir = "__dirname"
                         THEN outside \ {filename.name} ELSE outside
          /\ lastError' = lastError
     ELSE /\ files' = files
          /\ outside' = outside
          /\ lastError' = DeleteImageResult(filename)
  /\ UNCHANGED <<answers, config, activeJobs, heap, runs, listing, seen>>

\* the pattern argument of listImages: absent, or one letter (a regular expression
\* that matches the names containing it)
PatternInputs == { {}, {"A"}, {"z"} }

\* /\.(png|jpe?g)$/i.test(file)
IsImageFile(name) == toLowerCase(name.ext) \in {"png", "jpg", "jpeg"}

\* new RegExp(pattern, 'i').test(file) for a one-letter pattern: the base of the name
\* holds it in either case (the separators, the digits and the extensions in use
\* hold none of the letters in use)
RegExpTest(c, name) ==
  \E k \in 1..Len(name.base) : LowerChar(name.base[k]) = LowerChar(c)

\* lines 532-540: readdir, the extension filter, the pattern filter if there is one
FilterImages(fs, pattern) ==
  { fs[k] : k \in { n \in 1..Len(fs) :
                      /\ IsImageFile(fs[n])
                      /\ \A c \in pattern : RegExpTest(c, fs[n]) } }

\* stats.birthtime of a file: its rank in the directory, oldest first
Created(fs, name) == CHOOSE k \in 1..Len(fs) : fs[k] = name

RECURSIVE SortByCreated(_, _)

\* SortByCreated with the comparator a.created - b.created
SortByCreated_Ascending(names, fs) ==
  IF names = {} THEN <<>>
  ELSE LET first == CHOOSE f \in names :
                      \A g \in names : Created(fs, f) <= Created(fs, g)
       IN  <<first>> \o SortByCreated(names \ {first}, fs)

\* line 554: results.sort((a, b) => new Date(b.created) - new Date(a.created))
SortByCreated(names, fs) ==
  IF names = {} THEN <<>>
  ELSE LET first == CHOOSE f \in names :
                      \A g \in names : Created(fs, g) <= Created(fs, f)
       IN  <<first>> \o SortByCreated(names \ {first}, fs)

\* listImages up to the await of the stats, lines 528-542: the names are read and
\* filtered (one call in flight at a time)
ListStart(pattern) ==
  /\ listing = {}
  /\ listing' = {FilterImages(files, pattern)}
  /\ UNCHANGED <<answers, config, activeJobs, heap, runs, files, outside, seen, lastError>>

\* what the call in flight returns: fs.stat throws ENOENT for a name that has gone
\* since the readdir, otherwise the entries are sorted and returned
ListImagesResult(names) ==
  IF \E f \in names : ~Exists(files, f)
  THEN [outcome |-> "ENOENT", images |-> <<>>]
  ELSE [outcome |-> "images", images |-> SortByCreated(names, files)]

\* the continuation of the stats, lines 542-554
ListDone ==
  /\ listing # {}
  /\ listing' = {}
  /\ lastError' = LET res == ListImagesResult(CHOOSE names \in listing : TRUE)
                  IN  IF res.outcome = "images" THEN lastError ELSE res.outcome
  /\ UNCHANGED <<answers, config, activeJobs, heap, runs, files, outside, seen>>

\* the names the tool handler's switch knows, and the names callers send
ToolNames == {"generateImages", "checkStatus", "listImages", "deleteImage"}

ToolInputs == ToolNames \cup {"resizeImage"}

\* the default case of the switch, lines 618-619, and the catch, lines 624-629
UnknownTool(name) ==
  /\ name \notin ToolNames
  /\ lastError' = "Unknown tool"
  /\ UNCHANGED <<answers, config, activeJobs, heap, runs, files, outside, listing, seen>>

Next ==
  \/ \E input \in GenerateInputs : Generate(input)
  \/ \E r \in DOMAIN runs, now \in 0..MaxTime, rnd \in 0..MaxRand : StartJob(r, now, rnd)
  \/ \E r \in DOMAIN runs, now \in 0..MaxTime : StartSync(r, now)
  \/ \E r \in DOMAIN runs, outcome \in ProviderOutcomes : Responds(r, outcome)
  \/ \E r \in DOMAIN runs : Timeout(r)
  \/ \E r \in DOMAIN runs, ok \in BOOLEAN : WriteDone(r, ok)
  \/ \E jobId \in CheckStatusInputs : CheckStatus(jobId)

Spec == Init /\ [][Next]_vars

\* The event loop runs every continuation that is ready and fires every armed timer;
\* nothing obliges a provider to answer a request.
FairSpec ==
  /\ Spec
  /\ \A r \in 1..MaxRuns :
       /\ WF_vars(r \in DOMAIN runs /\
                    \E now \in 0..MaxTime, rnd \in 0..MaxRand : StartJob(r, now, rnd))
       /\ WF_vars(r \in DOMAIN runs /\ \E now \in 0..MaxTime : StartSync(r, now))
       /\ WF_vars(r \in DOMAIN runs /\ Timeout(r))
       /\ WF_vars(r \in DOMAIN runs /\ \E ok \in BOOLEAN : WriteDone(r, ok))

\* the whole tool handler: the generation and status tools, the file tools and the
\* calls that name no tool, around at most MaxToolRuns generate calls
ToolsNext ==
  \/ \E input \in GenerateInputs :
       (Len(runs) < MaxToolRuns \/ GenerateError(input) # {}) /\ Generate(input)
  \/ \E r \in DOMAIN runs, now \in 0..MaxTime, rnd \in 0..MaxRand : StartJob(r, now, rnd)
  \/ \E r \in DOMAIN runs, now \in 0..MaxTime : StartSync(r, now)
  \/ \E r \in DOMAIN runs, outcome \in ProviderOutcomes : Responds(r, outcome)
  \/ \E r \in DOMAIN runs : Timeout(r)
  \/ \E r \in DOMAIN runs, ok \in BOOLEAN : WriteDone(r, ok)
  \/ \E jobId \in CheckStatusInputs : CheckStatus(jobId)
  \/ \E name \in ToolInputs : UnknownTool(name)
  \/ \E filename \in DeleteInputs : DeleteImage(filename)
  \/ \E pattern \in PatternInputs : ListStart(pattern)
  \/ ListDone

ToolsSpec == Init /\ [][ToolsNext]_vars

\* jobs side by side with the status and file tools: the generate calls are
\* asynchronous and name dalle3 or an unknown provider, deleteImage names a file of
\* the image directory, listImages has no pattern
CrossJobNext ==
  \/ \E input \in GenerateInputs :
       input.async /\ input.provider # "Stability" /\ Generate(input)
  \/ \E r \in DOMAIN runs, now \in 0..MaxTime, rnd \in 0..MaxRand : StartJob(r, now, rnd)
  \/ \E r \in DOMAIN runs, outcome \in ProviderOutcomes : Responds(r, outcome)
  \/ \E r \in DOMAIN runs, ok \in BOOLEAN : WriteDone(r, ok)
  \/ \E jobId \in CheckStatusInputs : CheckStatus(jobId)
  \/ \E filename \in DeleteInputs : filename.up = 0 /\ DeleteImage(filename)
  \/ \E pattern \in PatternInputs : pattern = {} /\ ListStart(pattern)
  \/ ListDone

\* the longest word list a generate call can carry
MaxWords ==
  CHOOSE n \in 0..8 :
    /\ \A w \in WordsInputs : Len(WordListOf[w]) <= n
    /\ \E w \in WordsInputs : Len(WordListOf[w]) = n

\* what the requests made for one word get: the answer to the generation request,
\* the answer to the download of the image url (dalle3 only), and whether
\* fs.writeFile succeeds
WordAnswers == [request : ProviderOutcomes, download : {"image", "status"}, write : BOOLEAN]

Scripts == [1..MaxWords -> WordAnswers]

\* Responds with the answer laid down for the word in flight
ScriptedResponds(r) ==
  /\ runs[r].pc \in {"fetch", "download", "post"}
  /\ Responds(r, IF runs[r].pc = "download" THEN answers[runs[r].i + 1].download
                 ELSE answers[runs[r].i + 1].request)

\* WriteDone with the outcome laid down for the word in flight
ScriptedWriteDone(r) ==
  /\ runs[r].pc = "write"
  /\ WriteDone(r, answers[runs[r].i + 1].write)

\* a generate call with async = false followed by the same call with async = true
\* (calls that fail validation come at any time), served by a provider side that
\* answers every request, in time, and gives the requests for the k-th word of both
\* batches the same answers
AgreeNext ==
  \/ \E input \in GenerateInputs :
       /\ \/ GenerateError(input) # {}
          \/ runs = << >> /\ ~input.async
          \/ /\ Len(runs) = 1 /\ input.async
             /\ input.provider = runs[1].provider
             /\ WordListOf[input.words] = runs[1].wordList
       /\ Generate(input)
  \/ \E r \in DOMAIN runs, now \in 0..MaxTime, rnd \in 0..MaxRand : StartJob(r, now, rnd)
  \/ \E r \in DOMAIN runs, now \in 0..MaxTime : StartSync(r, now)
  \/ \E r \in DOMAIN runs : ScriptedResponds(r)
  \/ \E r \in DOMAIN runs : ScriptedWriteDone(r)

AgreeInit == Boot /\ answers \in Scripts

AgreeSpec == AgreeInit /\ [][AgreeNext]_vars

\* the server started with OPENAI_API_KEY set and STABILITY_API_KEY not set
CrossJobInit == Init /\ config = [dalle3 |-> TRUE, stability |-> FALSE]

CrossJobSpec == CrossJobInit /\ [][CrossJobNext]_vars

TypeOK ==
  /\ Len(runs) <= MaxRuns
  /\ Len(heap) <= Len(runs)
  /\ Len(seen) = Len(heap)
  /\ \A id \in DOMAIN activeJobs : activeJobs[id] \in DOMAIN heap

\* ------------------------------------------------------------------ properties
\* the runs whose loop has started
Started(r) == runs[r].pc # "ensureDirs"

\* the results sequence a run appends to: jobInfo.results, or the local `results`
ResultsOf(r) == IF runs[r].async THEN heap[runs[r].job].results ELSE runs[r].results

\* has the function of run r run to its end
Finished(r) == runs[r].pc \in {"done", "returned"}

\* the run that drives jobInfo object j
RunOf(j) == CHOOSE r \in DOMAIN runs : runs[r].async /\ runs[r].job = j

IsFailure(result) == result.url = {}

\* C1: failure isolation.  Whenever the provider step of word k has thrown, the
\* runner has recorded a failure result for word k at position k, it has gone on to
\* attempt word k+1 (if there is one), and a runner that has ended has attempted
\* every word: no failure ends the batch early.
C1_FailureIsolation ==
  \A r \in DOMAIN runs :
    Started(r) =>
      /\ \A k \in runs[r].failedAt :
           /\ k <= Len(ResultsOf(r))
           /\ IsFailure(ResultsOf(r)[k])
           /\ ResultsOf(r)[k].word = runs[r].wordList[k]
           /\ k < Len(runs[r].wordList) => k + 1 \in runs[r].attempted
      /\ Finished(r) => runs[r].attempted = 1..Len(runs[r].wordList)

\* a job whose first word failed at the provider and whose second word succeeded
C1_Witness ==
  \E r \in DOMAIN runs :
    /\ runs[r].async
    /\ Finished(r)
    /\ runs[r].failedAt = {1}
    /\ runs[r].sent[1] = 1
    /\ ~IsFailure(ResultsOf(r)[2])

\* C2: a completed job has exactly one result per input word, in input order,
\* whether the item succeeded or failed.
C2_OneResultPerWord ==
  \A j \in DOMAIN heap :
    heap[j].status = "completed" =>
      /\ Len(heap[j].results) = heap[j].totalWords
      /\ heap[j].totalWords = Len(runs[RunOf(j)].wordList)
      /\ \A k \in 1..Len(heap[j].results) :
           heap[j].results[k].word = runs[RunOf(j)].wordList[k]

\* a completed job over two different words, one failed and one succeeded
C2_Witness ==
  \E j \in DOMAIN heap :
    /\ heap[j].status = "completed"
    /\ Len(heap[j].results) = 2
    /\ heap[j].results[1].word # heap[j].results[2].word
    /\ ~IsFailure(heap[j].results[1])
    /\ IsFailure(heap[j].results[2])

\* C3: every started job eventually reaches completed, because every provider call
\* is bounded by a timeout that aborts it.
C3_EveryJobCompletes ==
  \A j \in 1..MaxRuns :
    (j \in DOMAIN heap) ~> (j \in DOMAIN heap /\ heap[j].status = "completed")

StatusChain == <<"started", "generating", "completed">>

IsPrefix(a, b) == Len(a) <= Len(b) /\ SubSeq(b, 1, Len(a)) = a

\* C4: the status of a job record only moves along started -> generating ->
\* completed: the values it has taken form a prefix of that chain, later values only
\* extend it, and it is completed only with completedWords = totalWords.
C4_StatusOrder ==
  [][/\ \A j \in DOMAIN heap' :
          /\ IsPrefix(heap'[j].statuses, StatusChain)
          /\ heap'[j].status = heap'[j].statuses[Len(heap'[j].statuses)]
          /\ heap'[j].status = "completed" =>
               heap'[j].completedWords = heap'[j].totalWords
     /\ \A j \in DOMAIN heap :
          /\ j \in DOMAIN heap'
          /\ IsPrefix(heap[j].statuses, heap'[j].statuses)]_vars

\* a job that waited for its provider and went through all three values
C4_Witness ==
  \E j \in DOMAIN heap :
    /\ heap[j].statuses = StatusChain
    /\ heap[j].completedWords = 2
    /\ runs[RunOf(j)].sent[2] = 1

Rank(status) ==
  CASE status = "started" -> 0
    [] status = "generating" -> 1
    [] status = "completed" -> 2

\* the length of the results a view shows (none before completion)
ViewResultsLen(view) == IF view.results = {} THEN 0 ELSE Len(CHOOSE x \in view.results : TRUE)

\* C5: of two checkStatus answers about the same job, the later one never shows a
\* smaller completedWords, fewer results or an earlier status, whatever the job's
\* runner, other jobs and other calls did in between.
C5_SnapshotMonotone ==
  [][\A j \in DOMAIN seen :
       \A v \in seen[j] : \A w \in seen'[j] :
         /\ w.completedWords >= v.completedWords
         /\ ViewResultsLen(w) >= ViewResultsLen(v)
         /\ Rank(w.status) >= Rank(v.status)]_vars

\* a job last seen with one item done has completed since, while another run is
\* still waiting for its provider
C5_Witness ==
  \E j \in DOMAIN seen :
    /\ \E v \in seen[j] : v.completedWords = 1 /\ v.status = "generating"
    /\ heap[j].status = "completed"
    /\ \E r \in DOMAIN runs : r # RunOf(j) /\ runs[r].pc \in {"fetch", "post"}

\* C6: checkStatus throws "Job not found" exactly for the ids that are not keys of
\* activeJobs, and for the id of every job ever created it answers a StatusView.
C6_NotFoundIffUnknown ==
  /\ \A id \in JobIds :
       /\ CheckStatusResult(id).outcome \in {"Job not found", "StatusView"}
       /\ CheckStatusResult(id).outcome = "Job not found" <=> id \notin DOMAIN activeJobs
  /\ \A j \in DOMAIN heap :
       /\ CheckStatusResult(heap[j].id).outcome = "StatusView"
       /\ CheckStatusResult(heap[j].id).view # {}

\* one call has been answered with a view of a job that has no finished item yet,
\* another has failed for an unknown id
C6_Witness ==
  /\ lastError = "Job not found"
  /\ JobIds \ DOMAIN activeJobs # {}
  /\ \E j \in DOMAIN seen : \E v \in seen[j] : v.completedWords = 0

RECURSIVE CountSuccess(_)
CountSuccess(results) ==
  IF results = <<>> THEN 0
  ELSE (IF IsFailure(Head(results)) THEN 0 ELSE 1) + CountSuccess(Tail(results))

\* C7: the view checkStatus answers carries results and counts exactly when the job
\* is completed; then successCount counts the results with a url, failureCount the
\* others, and the two add up to totalWords.
C7_CompletedViewCounts ==
  \A id \in DOMAIN activeJobs :
    LET rec == heap[activeJobs[id]]
        view == CHOOSE v \in CheckStatusResult(id).view : TRUE
    IN  /\ view.results # {} <=> rec.status = "completed"
        /\ view.successCount # {} <=> rec.status = "completed"
        /\ view.failureCount # {} <=> rec.status = "completed"
        /\ rec.status = "completed" =>
             /\ view.results = {rec.results}
             /\ view.successCount = {CountSuccess(rec.results)}
             /\ view.failureCount = {Len(rec.results) - CountSuccess(rec.results)}
             /\ CountSuccess(rec.results) + (Len(rec.results) - CountSuccess(rec.results))
                  = rec.totalWords

\* checkStatus has answered for a completed job with one success and one failure,
\* and for a job still generating
C7_Witness ==
  /\ \E j \in DOMAIN seen : \E v \in seen[j] :
       v.successCount = {1} /\ v.failureCount = {1}
  /\ \E j \in DOMAIN seen : \E v \in seen[j] :
       v.status = "generating" /\ v.completedWords = 1 /\ v.results = {}

\* C8: job ids are unique and permanent: a new record is stored under an id that was
\* no key before, no key is ever removed, and the record under a key never changes.
C8_IdsUniquePermanent ==
  [][/\ \A id \in DOMAIN activeJobs :
          id \in DOMAIN activeJobs' /\ activeJobs'[id] = activeJobs[id]
     /\ Len(heap') > Len(heap) => heap'[Len(heap')].id \notin DOMAIN activeJobs]_vars

\* C9: a generate call with async=false returns only after every word has been
\* attempted, returns one result per word in input order, and no step of the call
\* changes the registry or a job record.
C9_SyncReturnsAllResults ==
  [][\A r \in DOMAIN runs' :
       ~runs'[r].async =>
         /\ runs'[r].job = 0
         /\ runs'[r].pc = "returned" =>
              /\ runs'[r].attempted = 1..Len(runs'[r].wordList)
              /\ Len(runs'[r].results) = Len(runs'[r].wordList)
              /\ \A k \in 1..Len(runs'[r].results) :
                   runs'[r].results[k].word = runs'[r].wordList[k]
         /\ (r \notin DOMAIN runs \/ runs'[r] # runs[r]) =>
              (activeJobs' = activeJobs /\ heap' = heap)]_vars

\* a sync call has returned a failure and a success while a job is registered
C9_Witness ==
  /\ DOMAIN activeJobs # {}
  /\ \E r \in DOMAIN runs :
       /\ ~runs[r].async
       /\ runs[r].pc = "returned"
       /\ Len(runs[r].results) = 2
       /\ IsFailure(runs[r].results[1])
       /\ ~IsFailure(runs[r].results[2])

\* C10: a words argument with no usable word makes generate (async or not) throw the
\* validation error, and the call creates no job record, starts no runner, sends no
\* provider request and writes no file.
C10_EmptyWordsRejected ==
  [][\A input \in GenerateInputs :
       (Len(WordListOf[input.words]) = 0 /\ Generate(input)) =>
         /\ GenerateError(input) = {"No valid words provided."}
         /\ lastError' = "No valid words provided."
         /\ UNCHANGED <<activeJobs, heap, runs, files>>]_vars

\* a call with only separators and blanks has been rejected while a job is running
C10_Witness ==
  /\ lastError = "No valid words provided."
  /\ \E r \in DOMAIN runs : runs[r].pc \in {"fetch", "post"}
  /\ ParseWordList(<<" ", ",", " ">>) = <<>>

\* the positions a generate call can be in: waiting at an await, or ended normally
RunPositions == {"ensureDirs", "fetch", "download", "post", "write", "done", "returned"}

\* C11: every tool call is answered.  A call that names an unknown tool, or whose
\* operation throws, is answered with the error's message and changes nothing else;
\* no generate call or detached runner ever ends in a rejection nobody handles (which
\* would end the process); and in every state the server still answers calls.
C11_EveryCallAnswered ==
  [][/\ \A r \in DOMAIN runs' : runs'[r].pc \in RunPositions
     /\ \A name \in ToolInputs \ ToolNames :
          /\ ENABLED UnknownTool(name)
          /\ UnknownTool(name) =>
               /\ lastError' = "Unknown tool"
               /\ UNCHANGED <<activeJobs, heap, runs, files, outside, listing>>
     /\ \A jobId \in CheckStatusInputs :
          /\ ENABLED CheckStatus(jobId)
          /\ (CheckStatus(jobId) /\ jobId \notin DOMAIN activeJobs) =>
               lastError' = "Job not found"
     /\ \A filename \in DeleteInputs :
          /\ ENABLED DeleteImage(filename)
          /\ (DeleteImage(filename) /\ files' = files /\ outside' = outside) =>
               lastError' = "Image not found"
     /\ (listing # {} /\ ListDone /\ \E f \in UNION listing : ~Exists(files, f)) =>
          lastError' = "ENOENT"
     /\ lastError' \in {"none", "No valid words provided.", "Job not found",
                        "Image not found", "ENOENT", "Unknown tool"}]_vars

\* an unknown tool has been called after a job failed an item inside its runner and
\* went on to its end, and a listImages call is being served
C11_Witness ==
  /\ lastError = "Unknown tool"
  /\ listing # {}
  /\ \E r \in DOMAIN runs :
       runs[r].async /\ Finished(r) /\ runs[r].failedAt # {} /\ runs[r].sent[1] = 1

\* the names of the files of a directory
Names(fs) == { fs[k] : k \in 1..Len(fs) }

\* C12: deleteImage fails with "Image not found" when the image directory holds no
\* file of the given name, and then no file changes, in the directory or outside it;
\* when the directory holds the file, the call removes exactly that file and leaves
\* every other file as it was.
C12_DeleteExactlyNamed ==
  [][\A filename \in DeleteInputs :
       DeleteImage(filename) =>
         IF filename.up = 0 /\ filename.name \in Names(files)
         THEN /\ Names(files') = Names(files) \ {filename.name}
              /\ Len(files') = Len(files) - 1
              /\ outside' = outside
         ELSE /\ lastError' = "Image not found"
              /\ files' = files
              /\ outside' = outside]_vars

\* does the name end in .png, .jpg or .jpeg, in either case
HasImageExtension(name) == name.ext \in {"png", "PNG", "jpg", "JPG", "jpeg", "JPEG"}

\* does the name hold the letter, in either case
NameHolds(c, name) ==
  \E k \in 1..Len(name.base) :
    \/ name.base[k] = c
    \/ c \in {"a", "A"} /\ name.base[k] \in {"a", "A"}
    \/ c \in {"z", "Z"} /\ name.base[k] \in {"z", "Z"}

\* C13: listImages reads exactly the files of the image directory that have an image
\* extension and match the pattern (all of them if there is none), and returns them
\* newest first; when nothing matches it returns the empty sequence and no error.
C13_ListExactlyImages ==
  [][/\ \A pattern \in PatternInputs :
          ListStart(pattern) =>
            listing' = {{ f \in Names(files) :
                            HasImageExtension(f) /\ \A c \in pattern : NameHolds(c, f) }}
     /\ (listing # {} /\ ListDone) =>
          LET names == CHOOSE n \in listing : TRUE
              res == ListImagesResult(names)
          IN  names \subseteq Names(files) =>
                /\ res.outcome = "images"
                /\ lastError' = lastError
                /\ Len(res.images) = Cardinality(names)
                /\ { res.images[k] : k \in 1..Len(res.images) } = names
                /\ \A i, j \in 1..Len(res.images) :
                     i < j => Created(files, res.images[i]) > Created(files, res.images[j])
                /\ names = {} => res.images = <<>>]_vars

\* a call is listing a generated .png and the older .JPG while the directory also
\* holds a file that is no image
C13_Witness ==
  /\ \E f \in Names(files) : ~HasImageExtension(f)
  /\ \E names \in listing :
       /\ Cardinality(names) = 2
       /\ \E f \in names : f.ext = "JPG"
       /\ \E f \in names : f.ext = "png"
       /\ ListImagesResult(names).images[1].ext = "png"

\* C14: in every state another tool call can observe (between two uninterrupted
\* steps of the runner), completedWords equals the length of results for every job,
\* and lies between 0 and totalWords.
C14_CounterMatchesResults ==
  \A j \in DOMAIN heap :
    /\ heap[j].completedWords = Len(heap[j].results)
    /\ heap[j].completedWords \in 0..heap[j].totalWords

\* a runner waits for its second item with the first one, a success, recorded
C14_Witness ==
  \E j \in DOMAIN heap :
    /\ runs[RunOf(j)].pc \in {"fetch", "download", "post", "write"}
    /\ heap[j].completedWords = 1
    /\ Len(heap[j].results) = 1
    /\ ~IsFailure(heap[j].results[1])

\* C15: in every observable state and for every job record, the status is completed
\* if and only if completedWords equals totalWords.
C15_CompletedIffAllDone ==
  \A j \in DOMAIN heap :
    heap[j].status = "completed" <=> heap[j].completedWords = heap[j].totalWords

\* one job is completed with both items counted while another is generating with one
\* of two
C15_Witness ==
  /\ \E j \in DOMAIN heap :
       heap[j].status = "completed" /\ heap[j].completedWords = 2 /\ heap[j].totalWords = 2
  /\ \E j \in DOMAIN heap :
       heap[j].status = "generating" /\ heap[j].completedWords = 1 /\ heap[j].totalWords = 2

\* the results sequence of run r after the step (none before its loop starts)
ResultsAfter(r) ==
  IF runs'[r].pc = "ensureDirs" THEN <<>>
  ELSE IF runs'[r].async THEN heap'[runs'[r].job].results ELSE runs'[r].results

\* C16: output filenames do not collide.  Two items of one job that were generated
\* have different filenames, and no item's write replaces a file that an item of a
\* different job wrote.
C16_FilenamesDistinct ==
  [][/\ \A r \in DOMAIN runs' :
          \A k1, k2 \in 1..Len(ResultsAfter(r)) :
            (k1 # k2 /\ ~IsFailure(ResultsAfter(r)[k1]) /\ ~IsFailure(ResultsAfter(r)[k2]))
              => ResultsAfter(r)[k1].filename # ResultsAfter(r)[k2].filename
     /\ \A r \in DOMAIN runs :
          (/\ runs[r].pc = "write"
           /\ Len(ResultsAfter(r)) > Len(ResultsOf(r))
           /\ ~IsFailure(ResultsAfter(r)[Len(ResultsOf(r)) + 1])) =>
            \A r2 \in DOMAIN runs \ {r} :
              Started(r2) =>
                \A k \in 1..Len(ResultsOf(r2)) :
                  ResultsOf(r2)[k].filename
                    # {FileName(CurrentWord(runs[r]), runs[r].timestamp)}]_vars

\* C17: a run processes its words in order and one at a time, with one provider
\* call per word.  The words attempted so far are the first ones of the list; the call
\* for a word is sent only when the results of all earlier words are recorded; no
\* word ever gets a second call, failed or not; and with a usable provider every
\* word with a result got exactly one call.
C17_OneCallPerWordInOrder ==
  \A r \in DOMAIN runs :
    Started(r) =>
      /\ \E n \in 0..Len(runs[r].wordList) : runs[r].attempted = 1..n
      /\ Cardinality(runs[r].attempted) <= Len(ResultsOf(r)) + 1
      /\ \A k \in 1..Len(runs[r].wordList) :
           /\ runs[r].sent[k] <= 1
           /\ runs[r].sent[k] = 1 => k \in runs[r].attempted /\ Len(ResultsOf(r)) >= k - 1
           /\ (k <= Len(ResultsOf(r)) /\ (config.dalle3 \/ ~IsDalle(runs[r].provider))
                 /\ (config.stability \/ ~IsStability(runs[r].provider))
                 /\ (IsDalle(runs[r].provider) \/ IsStability(runs[r].provider)))
                => runs[r].sent[k] = 1

\* a job whose two calls both failed has ended with one call sent for each word
C17_Witness ==
  \E r \in DOMAIN runs :
    /\ runs[r].async
    /\ Finished(r)
    /\ runs[r].failedAt = {1, 2}
    /\ runs[r].sent = <<1, 1>>

\* the runners of job record j
RunnersOf(j) == { r \in DOMAIN runs : runs[r].async /\ runs[r].job = j }

\* C18: job ownership.  Every job record has exactly one runner, the one of the
\* generate call that created it; a step changes the record only if it is a step of
\* that runner, so steps of other jobs' runners and of checkStatus, listImages and
\* deleteImage leave it as it is; and its id, totalWords, provider and startTime never
\* change.
C18_JobOwnership ==
  [][/\ \A j \in DOMAIN heap :
          /\ j \in DOMAIN heap'
          /\ Cardinality(RunnersOf(j)) = 1
          /\ heap'[j].id = heap[j].id
          /\ heap'[j].totalWords = heap[j].totalWords
          /\ heap'[j].provider = heap[j].provider
          /\ heap'[j].startTime = heap[j].startTime
          /\ heap'[j] # heap[j] =>
               /\ runs[RunOf(j)].pc \in {"fetch", "download", "post", "write"}
               /\ runs'[RunOf(j)] # runs[RunOf(j)]
               /\ \A r \in DOMAIN runs \ {RunOf(j)} : runs'[r] = runs[r]
               /\ \A j2 \in DOMAIN heap \ {j} : heap'[j2] = heap[j2]
     /\ Len(heap') > Len(heap) =>
          \E r \in DOMAIN runs :
            /\ runs[r].pc = "ensureDirs"
            /\ runs'[r].job = Len(heap')
            /\ \A r2 \in DOMAIN runs' \ {r} : runs'[r2].job # Len(heap')
     /\ ((\E jobId \in CheckStatusInputs : CheckStatus(jobId))
           \/ (\E filename \in DeleteInputs : DeleteImage(filename))
           \/ (\E pattern \in PatternInputs : ListStart(pattern))
           \/ ListDone) => heap' = heap]_vars

\* two jobs wait for the provider, one with its first item done; checkStatus has
\* answered for one of them, a listImages call is in flight and deleteImage has
\* removed the generated file
C18_Witness ==
  /\ \E j1, j2 \in DOMAIN heap :
       /\ j1 # j2
       /\ runs[RunOf(j1)].pc = "fetch" /\ heap[j1].completedWords = 1
       /\ ~IsFailure(heap[j1].results[1])
       /\ runs[RunOf(j2)].pc \in {"fetch", "download", "write"}
       /\ seen[j2] # {}
  /\ listing # {}
  /\ \A f \in Names(files) : f.ext # "png"

\* C19: checkStatus is read-only.  Whether it answers a view or throws "Job not
\* found", the registry and every field of every job record are the same after the
\* call as before, and so are the runs and the files.
C19_CheckStatusReadOnly ==
  [][\A jobId \in CheckStatusInputs :
       CheckStatus(jobId) =>
         /\ activeJobs' = activeJobs
         /\ heap' = heap
         /\ runs' = runs
         /\ files' = files]_vars

\* a call was answered for a job with one item done and a word in progress, the
\* record still is what the view showed, and a call for an unknown id has failed
C19_Witness ==
  /\ lastError = "Job not found"
  /\ \E j \in DOMAIN heap :
       /\ seen[j] = {StatusView(heap[j])}
       /\ heap[j].status = "generating"
       /\ heap[j].completedWords = 1
       /\ heap[j].currentWord # {}

\* is the provider name unknown, or known with its api key not set
ProviderUnusable(provider) ==
  /\ ~(toLowerCase(provider) \in {"dalle3", "dall-e-3"} /\ config.dalle3)
  /\ ~(toLowerCase(provider) = "stability" /\ config.stability)

\* the message such a provider's items fail with
ExpectedReason(provider) ==
  IF toLowerCase(provider) \in {"dalle3", "dall-e-3"} THEN "Missing OPENAI_API_KEY"
  ELSE IF toLowerCase(provider) = "stability" THEN "Missing STABILITY_API_KEY"
  ELSE "Unsupported provider"

\* C20: a job whose provider is unknown, or known without its api key, is completed
\* as soon as it exists, with one failure result per word that carries the reason,
\* in input order, and without a single request sent; and the server goes on
\* answering checkStatus for every id.
C20_UnusableProviderFailsItems ==
  /\ \A j \in DOMAIN heap :
       ProviderUnusable(heap[j].provider) =>
         /\ heap[j].status = "completed"
         /\ Len(heap[j].results) = heap[j].totalWords
         /\ \A k \in 1..Len(heap[j].results) :
              /\ IsFailure(heap[j].results[k])
              /\ heap[j].results[k].alt = ExpectedReason(heap[j].provider)
              /\ heap[j].results[k].word = runs[RunOf(j)].wordList[k]
              /\ runs[RunOf(j)].sent[k] = 0
  /\ \A jobId \in CheckStatusInputs : ENABLED CheckStatus(jobId)

\* a job whose provider has no api key is completed with two failures that say so,
\* checkStatus has reported them, and a job started later has generated an image
C20_Witness ==
  /\ \E j \in DOMAIN heap :
       /\ ProviderUnusable(heap[j].provider)
       /\ heap[j].results[1].alt \in {"Missing OPENAI_API_KEY", "Missing STABILITY_API_KEY"}
       /\ Len(heap[j].results) = 2
       /\ \E j2 \in DOMAIN heap :
            j2 > j /\ Len(heap[j2].results) > 0 /\ ~IsFailure(heap[j2].results[1])
  /\ \E v \in UNION { seen[j] : j \in DOMAIN seen } : v.failureCount = {2}

\* C21: in every state another tool call can observe, a job record has a currentWord
\* exactly while its status is generating; the currentWord is then the word at index
\* completedWords of the word list of its runner, and checkStatus reports the same
\* word; a completed record has no currentWord.
C21_CurrentWordInFlight ==
  \A j \in DOMAIN heap :
    /\ heap[j].currentWord # {} <=> heap[j].status = "generating"
    /\ heap[j].status = "generating" =>
         /\ heap[j].completedWords < Len(runs[RunOf(j)].wordList)
         /\ heap[j].currentWord = {runs[RunOf(j)].wordList[heap[j].completedWords + 1]}
         /\ StatusView(heap[j]).currentWord = heap[j].currentWord
    /\ heap[j].status = "completed" =>
         /\ heap[j].currentWord = {}
         /\ StatusView(heap[j]).currentWord = {}

\* one job waits for the provider with its second word, "A", in flight and one item
\* counted, while another job is completed and names no word
C21_Witness ==
  /\ \E j \in DOMAIN heap :
       /\ heap[j].status = "generating"
       /\ heap[j].completedWords = 1
       /\ heap[j].currentWord = {<<"A">>}
       /\ runs[RunOf(j)].pc \in {"fetch", "post"}
  /\ \E j \in DOMAIN heap :
       heap[j].status = "completed" /\ heap[j].currentWord = {}

\* C22: no checkStatus call ever reports the status started.  In every state another
\* tool call can observe, every stored job record has left the status started (its
\* status went from started to generating in the step that created and stored it),
\* so neither the answer checkStatus would give for any id nor any view it has given
\* carries that status.
C22_NeverReportsStarted ==
  /\ \A j \in DOMAIN heap :
       /\ heap[j].status # "started"
       /\ Len(heap[j].statuses) >= 2
       /\ heap[j].statuses[1] = "started"
       /\ heap[j].statuses[2] = "generating"
  /\ \A id \in JobIds : \A v \in CheckStatusResult(id).view : v.status # "started"
  /\ \A j \in DOMAIN seen : \A v \in seen[j] : v.status # "started"

\* checkStatus has answered for a job whose runner still waits for the answer to its
\* first request: the view says generating, with no item counted
C22_Witness ==
  \E j \in DOMAIN heap :
    /\ runs[RunOf(j)].pc \in {"fetch", "post"}
    /\ runs[RunOf(j)].i = 0
    /\ heap[j].statuses = <<"started", "generating">>
    /\ seen[j] = {StatusView(heap[j])}
    /\ \E v \in seen[j] : v.status = "generating" /\ v.completedWords = 0

\* C23: the synchronous and the asynchronous path agree.  Whenever a generate call
\* with async = false has returned and the job of a generate call with async = true
\* is completed, both for the same word list and provider, and the requests for the
\* k-th word got the same answers on both sides, the two results sequences have the
\* same length and agree item by item in the word and in success or failure.
C23_SyncAsyncAgree ==
  \A r1, r2 \in DOMAIN runs :
    (/\ ~runs[r1].async /\ runs[r1].pc = "returned"
     /\ runs[r2].async /\ runs[r2].pc = "done"
     /\ runs[r1].wordList = runs[r2].wordList
     /\ runs[r1].provider = runs[r2].provider)
    => /\ Len(ResultsOf(r1)) = Len(ResultsOf(r2))
       /\ \A k \in 1..Len(ResultsOf(r1)) :
            /\ ResultsOf(r1)[k].word = ResultsOf(r2)[k].word
            /\ IsFailure(ResultsOf(r1)[k]) = IsFailure(ResultsOf(r2)[k])

====
